---- MODULE Spec2Model ----
(***************************************************************************)
(* WriteWell: the note/folder/tag store (NotesProvider), its localStorage  *)
(* persistence adapter (lib/storage.ts) and the editor's auto-save logic   *)
(* (components/Editor.tsx), as a state machine.                            *)
(*                                                                         *)
(* React semantics kept by the model:                                      *)
(*  - a state setter only queues an update; the queued updates become the  *)
(*    rendered state at the next render (action Render);                   *)
(*  - a callback reads the state of the render that created it (the        *)
(*    closure), never the queued one;                                      *)
(*  - effects run after the render that changed one of their dependencies, *)
(*    in declaration order.                                                *)
(***************************************************************************)
EXTENDS Integers, Sequences, FiniteSets, TLC

(* ------------------------------ bounds --------------------------------- *)
MaxTime == 3
MaxNotes == 2
MaxFolders == 2
MaxTags == 2
MaxBatch == 2
MaxEntities == 2
Horizon == 501
FontReach == 2
MaxDrift == 1

(* ------------------------------ values --------------------------------- *)
Null == "null"

\* types/index.ts: the keys of a Note, a Folder and a Tag, in the order the
\* object literals of createNote / createFolder / createTag write them
NoteKeys == <<"id", "title", "content", "folderId", "tags", "createdAt", "updatedAt", "fontSize">>
FolderKeys == <<"id", "name", "parentId", "createdAt">>
TagKeys == <<"id", "name">>

\* String.prototype.toLowerCase on the tag names the model uses
ToLowerCase(name) ==
  CASE name = "Work" -> "work"
    [] name = "Home" -> "home"
    [] OTHER -> name

(* -------------------------- lib/storage.ts ----------------------------- *)
NOTES == "writewell_notes"
FOLDERS == "writewell_folders"
TAGS == "writewell_tags"
STORAGE_KEYS == {NOTES, FOLDERS, TAGS}

\* What localStorage holds under a key: nothing (getItem gives null), the
\* empty string, a string that is no JSON, or the JSON text of an array of
\* objects, each object a sequence of <<key, value>> members.
Absent == [kind |-> "absent", body |-> <<>>]
EmptyText == [kind |-> "empty", body |-> <<>>]
Garbage == [kind |-> "garbage", body |-> <<>>]
ArrayText(objs) == [kind |-> "array", body |-> objs]

\* a stringify that leaves out a folderId that is null
StringifyObjectNoNull(obj, keys) ==
  SelectSeq([i \in 1..Len(keys) |-> <<keys[i], obj[keys[i]]>>],
            LAMBDA member : ~(member[1] = "folderId" /\ obj.folderId = Null))

\* JSON.stringify of one entity: its members in key order
StringifyObject(obj, keys) ==
  [i \in 1..Len(keys) |-> <<keys[i], obj[keys[i]]>>]

\* JSON.stringify(collection)
JSONStringify(coll, keys) ==
  ArrayText([i \in 1..Len(coll) |-> StringifyObject(coll[i], keys)])

\* JSON.parse of one object text
ParseObject(members) ==
  [k \in {members[i][1] : i \in 1..Len(members)} |->
     members[CHOOSE i \in 1..Len(members) : members[i][1] = k][2]]

\* JSON.parse(data): throws a SyntaxError on a text that is no JSON
JSONParse(data) ==
  IF data.kind = "array"
  THEN [threw |-> FALSE, value |-> [i \in 1..Len(data.body) |-> ParseObject(data.body[i])]]
  ELSE [threw |-> TRUE, value |-> <<>>]

\* a getNotes that parses nothing
GetCollectionEmpty(data) == [threw |-> FALSE, value |-> <<>>]

\* storage.getNotes / getFolders / getTags:
\*   const data = localStorage.getItem(KEY); return data ? JSON.parse(data) : [];
\* (null and "" are falsy)
GetCollection(data) ==
  IF data.kind \in {"absent", "empty"}
  THEN [threw |-> FALSE, value |-> <<>>]
  ELSE JSONParse(data)

KeysOf(key) ==
  CASE key = NOTES -> NoteKeys
    [] key = FOLDERS -> FolderKeys
    [] key = TAGS -> TagKeys

\* storage.saveNotes / saveFolders / saveTags: localStorage.setItem(KEY, JSON.stringify(coll))
SaveCollection(store, key, coll) ==
  [store EXCEPT ![key] = JSONStringify(coll, KeysOf(key))]

(* ------------------------------ state ---------------------------------- *)
VARIABLES
  now,               \* Date.now()
  storage,           \* localStorage, the three collection keys
  phase,             \* NotesProvider: "unmounted", "hydrating", "ready", "crashed"
  notes, folders, tags, selectedNoteId, selectedFolderId,   \* the rendered state
  queued,            \* the state with the queued updates applied (the next render's)
  dirty,             \* the keys of the collections that have a queued update
  touched,           \* the ids of the notes whose object a queued update replaced
  batch,             \* store calls since the last render
  loads,             \* runs of the load effect
  boot,              \* history: localStorage when the page was opened
  last,              \* history: the last store call since the last render
  title, fontSize, noteTags,   \* Editor: the rendered local state
  local,             \* Editor: the local state with the queued updates applied
  doc,               \* Editor: the text of the TipTap document
  isInitializing,    \* Editor: isInitializingRef.current
  timers,            \* the pending timeouts of setTimeout
  saveTimeoutRef,    \* Editor: saveTimeoutRef.current
  typed,             \* history: the last input in the body of the editor
  mounted,           \* Editor: the component is mounted
  dialogState,       \* DialogProvider: the dialog shown, and how the last one was closed
  isSidebarCollapsed, isMobile, isSidebarOpen,   \* AppContent: the rendered state
  page               \* AppContent: the state with the queued updates applied

\* the state of DialogProvider and of AppContent
pageVars == <<dialogState, isSidebarCollapsed, isMobile, isSidebarOpen, page>>

\* the state of the Editor component and of the timers it sets, and of the
\* page around it
edVars == <<title, fontSize, noteTags, local, doc, isInitializing, timers, saveTimeoutRef, typed,
            mounted, pageVars>>

vars == <<now, storage, phase, notes, folders, tags, selectedNoteId, selectedFolderId,
          queued, dirty, touched, batch, loads, boot, last, edVars>>

Rendered ==
  [notes |-> notes, folders |-> folders, tags |-> tags,
   selectedNoteId |-> selectedNoteId, selectedFolderId |-> selectedFolderId]

Collection(key, st) ==
  CASE key = NOTES -> st.notes
    [] key = FOLDERS -> st.folders
    [] key = TAGS -> st.tags

\* Date.now().toString()
IdOf(t) == ToString(t)

\* an id no entity has
MissingId == IdOf(-1)

\* the ids a caller may address a collection with: those of its entities
\* and one that is not there
IdsOf(coll) == {coll[i].id : i \in 1..Len(coll)} \cup {MissingId}

\* op: the function called; id, name: its arguments; fields: the keys of its
\* updates argument; ret: the id of the entity it returned; hit: whether it
\* met what it was addressed to
NoCall == [op |-> "none", id |-> Null, name |-> Null, fields |-> {}, ret |-> Null, hit |-> FALSE]

Call(op, id, name, fields, ret, hit) ==
  [op |-> op, id |-> id, name |-> name, fields |-> fields, ret |-> ret, hit |-> hit]

\* Date.now() read again later in the same function: the clock may have moved on
Later(t) == {t} \cup {u \in {t + 1} : u <= MaxTime}

(* ------------------- what localStorage may hold at startup -------------- *)
SavedNote ==
  [id |-> "0", title |-> "Essay", content |-> "<p>a</p>", folderId |-> "0",
   tags |-> <<"Work">>, createdAt |-> 0, updatedAt |-> 0, fontSize |-> 16]
\* a note an earlier session created before SavedNote and left as it was
OtherNote ==
  [id |-> IdOf(-2), title |-> "Untitled Note", content |-> "<p>b</p>", folderId |-> Null,
   tags |-> <<>>, createdAt |-> -2, updatedAt |-> -2, fontSize |-> 18]
SavedFolder == [id |-> "0", name |-> "Drafts", parentId |-> Null, createdAt |-> 0]
SavedTag == [id |-> "0", name |-> "Work"]

SavedStorage ==
  [k \in STORAGE_KEYS |->
     JSONStringify(Collection(k, [notes |-> <<SavedNote>>, folders |-> <<SavedFolder>>,
                                  tags |-> <<SavedTag>>]), KeysOf(k))]

\* the saved data with two notes in it
TwoNotesStorage ==
  [SavedStorage EXCEPT ![NOTES] = JSONStringify(<<OtherNote, SavedNote>>, NoteKeys)]

FreshStorage == [k \in STORAGE_KEYS |-> Absent]

\* every mix of an absent key, an empty string, a broken text and saved data
AnyStorage ==
  {[k \in STORAGE_KEYS |-> IF pick[k] = "saved" THEN SavedStorage[k]
                           ELSE IF pick[k] = "absent" THEN Absent
                           ELSE IF pick[k] = "empty" THEN EmptyText
                           ELSE Garbage] :
     pick \in [STORAGE_KEYS -> {"saved", "absent", "empty", "garbage"}]}

(* -------------------- components/Editor.tsx: construction --------------- *)
DEBOUNCE_DELAY == 300
MIN_FONT_SIZE == 12
MAX_FONT_SIZE == 48
DEFAULT_FONT_SIZE == 16

\* setTimeout(() => { isInitializingRef.current = false; }, 100)
InitializingDelay == 100

\* A pending timeout: the debounced save of (noteId, {title, content}), or
\* the reset of the initializing flag.
NoTimer == [kind |-> "none", due |-> 0, noteId |-> Null, title |-> Null, content |-> Null]

SaveTimer(due, noteId, updates) ==
  [kind |-> "save", due |-> due, noteId |-> noteId,
   title |-> updates.title, content |-> updates.content]

InitTimer(due) ==
  [kind |-> "init", due |-> due, noteId |-> Null, title |-> Null, content |-> Null]

NotTyped == [at |-> 0, content |-> Null, unsaved |-> FALSE]

\* AppContent: useState(false) three times
AppContentMounted ==
  [isSidebarCollapsed |-> FALSE, isMobile |-> FALSE, isSidebarOpen |-> FALSE]

\* useState<DialogState | null>(null): no dialog is shown; by is history,
\* the way the last dialog was closed
NoDialog == [isOpen |-> FALSE, noteId |-> Null, by |-> "none"]

\* The Editor after its first render, with no note selected: useState's
\* initial values, an empty document, no timeout.
EditorMounted ==
  /\ title = "" /\ fontSize = DEFAULT_FONT_SIZE /\ noteTags = <<>>
  /\ local = [title |-> "", fontSize |-> DEFAULT_FONT_SIZE, noteTags |-> <<>>]
  /\ doc = ""
  /\ isInitializing = FALSE
  /\ timers = {}
  /\ saveTimeoutRef = NoTimer
  /\ typed = NotTyped
  /\ mounted = TRUE
  /\ dialogState = NoDialog
  /\ isSidebarCollapsed = FALSE /\ isMobile = FALSE /\ isSidebarOpen = FALSE
  /\ page = AppContentMounted

(* ---------------------- NotesProvider: construction --------------------- *)
InitialState ==
  [notes |-> <<>>, folders |-> <<>>, tags |-> <<>>,
   selectedNoteId |-> Null, selectedFolderId |-> Null]

InitWith(stores) ==
  /\ now = 1
  /\ storage \in stores
  /\ boot = storage
  /\ phase = "unmounted"
  /\ notes = <<>> /\ folders = <<>> /\ tags = <<>>
  /\ selectedNoteId = Null /\ selectedFolderId = Null
  /\ queued = InitialState
  /\ dirty = {}
  /\ touched = {}
  /\ batch = 0
  /\ loads = 0
  /\ last = NoCall
  /\ EditorMounted

Init == InitWith({FreshStorage, SavedStorage})

\* a page opened for the first time
InitFresh == InitWith({FreshStorage})

\* a page opened on the data an earlier session saved
InitSaved == InitWith({SavedStorage})

\* a page opened on two saved notes
InitTwoNotes == InitWith({TwoNotesStorage})

\* save effects of which the folders one is missing
SaveEffectsNoFolders(store, st, changed) ==
  LET s1 == IF NOTES \in changed THEN SaveCollection(store, NOTES, st.notes) ELSE store
  IN  IF TAGS \in changed THEN SaveCollection(s1, TAGS, st.tags) ELSE s1

\* the three save effects, in declaration order, for the collections whose
\* dependency changed
SaveEffects(store, st, changed) ==
  LET s1 == IF NOTES \in changed THEN SaveCollection(store, NOTES, st.notes) ELSE store
      s2 == IF FOLDERS \in changed THEN SaveCollection(s1, FOLDERS, st.folders) ELSE s1
  IN  IF TAGS \in changed THEN SaveCollection(s2, TAGS, st.tags) ELSE s2

\* The first render and its effects: the load effect reads the three
\* collections and queues them; then the save effects run with the state of
\* the first render, the empty collections. A throw of JSON.parse leaves the
\* load effect, and the effects after it in the component do not run.
Mount ==
  /\ phase = "unmounted"
  /\ LET loadedNotes == GetCollection(storage[NOTES])
         loadedFolders == GetCollection(storage[FOLDERS])
         loadedTags == GetCollection(storage[TAGS])
     IN  IF loadedNotes.threw \/ loadedFolders.threw \/ loadedTags.threw
         THEN /\ phase' = "crashed"
              /\ UNCHANGED <<storage, queued, dirty, touched>>
         ELSE /\ phase' = "hydrating"
              /\ queued' = [queued EXCEPT !.notes = loadedNotes.value,
                                          !.folders = loadedFolders.value,
                                          !.tags = loadedTags.value]
              /\ dirty' = STORAGE_KEYS
              /\ touched' = {loadedNotes.value[i].id : i \in 1..Len(loadedNotes.value)}
              /\ storage' = SaveEffects(storage, Rendered, STORAGE_KEYS)
  /\ loads' = loads + 1
  /\ UNCHANGED <<now, notes, folders, tags, selectedNoteId, selectedFolderId,
                 batch, boot, last>>

\* a re-render that takes the update of setNotes alone when both setNotes
\* and setFolders have queued one (state updates that are not batched)
CommitNotesFirst ==
  /\ phase \in {"hydrating", "ready"}
  /\ notes' = queued.notes
  /\ folders' = IF notes # queued.notes THEN folders ELSE queued.folders
  /\ tags' = queued.tags
  /\ selectedNoteId' = queued.selectedNoteId
  /\ selectedFolderId' = queued.selectedFolderId
  /\ storage' = SaveEffects(storage, [queued EXCEPT !.folders = folders'], dirty)
  /\ phase' = "ready"
  /\ last' = NoCall
  /\ UNCHANGED <<now, loads, boot>>

\* The provider's part of a re-render: the queued updates become the state,
\* then the save effects of the changed collections run.
Commit ==
  /\ phase \in {"hydrating", "ready"}
  /\ notes' = queued.notes
  /\ folders' = queued.folders
  /\ tags' = queued.tags
  /\ selectedNoteId' = queued.selectedNoteId
  /\ selectedFolderId' = queued.selectedFolderId
  /\ storage' = SaveEffects(storage, queued, dirty)
  /\ phase' = "ready"
  /\ last' = NoCall
  /\ UNCHANGED <<now, loads, boot>>

\* A re-render of the provider with no consumer that calls the store from
\* an effect.
Render ==
  /\ queued # Rendered \/ dirty # {}
  /\ Commit
  /\ dirty' = {}
  /\ touched' = {}
  /\ batch' = 0
  /\ UNCHANGED queued

\* time passes
Tick ==
  /\ now < MaxTime
  /\ now' = now + 1
  /\ UNCHANGED <<storage, phase, notes, folders, tags, selectedNoteId, selectedFolderId,
                 queued, dirty, touched, batch, loads, boot, last>>

\* The page is closed and opened again: localStorage is what is left; the
\* provider and the Editor are constructed anew, and the timeouts are gone.
Reload ==
  /\ phase = "ready"
  /\ phase' = "unmounted"
  /\ boot' = storage
  /\ notes' = <<>> /\ folders' = <<>> /\ tags' = <<>>
  /\ selectedNoteId' = Null /\ selectedFolderId' = Null
  /\ queued' = InitialState
  /\ dirty' = {} /\ touched' = {} /\ batch' = 0 /\ loads' = 0
  /\ last' = NoCall
  /\ title' = "" /\ fontSize' = DEFAULT_FONT_SIZE /\ noteTags' = <<>>
  /\ local' = [title |-> "", fontSize |-> DEFAULT_FONT_SIZE, noteTags |-> <<>>]
  /\ doc' = "" /\ isInitializing' = FALSE
  /\ timers' = {} /\ saveTimeoutRef' = NoTimer
  /\ typed' = NotTyped /\ mounted' = TRUE
  /\ dialogState' = NoDialog
  /\ isSidebarCollapsed' = FALSE /\ isMobile' = FALSE /\ isSidebarOpen' = FALSE
  /\ page' = AppContentMounted
  /\ UNCHANGED <<now, storage>>

(* ----------------------- NotesProvider: the store ----------------------- *)
\* a store call made by a handler of the mounted view
CanCall == phase = "ready" /\ batch < MaxBatch

\* what every store call leaves alone, and the history it writes
Called(call) ==
  /\ batch' = batch + 1
  /\ last' = call
  /\ UNCHANGED <<storage, phase, notes, folders, tags, selectedNoteId, selectedFolderId,
                 loads, boot>>

\* a new note that takes the folder for granted and starts at the root
NewNoteAtRoot(folderId, createdAt, updatedAt) ==
  [id |-> IdOf(now), title |-> "Untitled Note", content |-> "", folderId |-> Null,
   tags |-> <<>>, createdAt |-> createdAt, updatedAt |-> updatedAt, fontSize |-> 16]

\* const newNote: Note = { id: Date.now().toString(), ..., createdAt: Date.now(),
\* updatedAt: Date.now(), fontSize: 16 }
NewNote(folderId, createdAt, updatedAt) ==
  [id |-> IdOf(now), title |-> "Untitled Note", content |-> "", folderId |-> folderId,
   tags |-> <<>>, createdAt |-> createdAt, updatedAt |-> updatedAt, fontSize |-> 16]

createNote(folderId) ==
  /\ CanCall
  /\ Len(queued.notes) < MaxNotes
  /\ \E createdAt \in Later(now) : \E updatedAt \in Later(createdAt) :
       LET newNote == NewNote(folderId, createdAt, updatedAt)
       IN  /\ queued' = [queued EXCEPT !.notes = Append(@, newNote),
                                       !.selectedNoteId = newNote.id]
           /\ now' = updatedAt
           /\ Called(Call("createNote", Null, folderId, {}, newNote.id, TRUE))
  /\ dirty' = dirty \cup {NOTES}
  /\ UNCHANGED touched

\* the spread written in the wrong order: { ...note, updatedAt: Date.now(), ...updates }
MergeUpdatesLast(note, updates) ==
  [k \in DOMAIN note \cup DOMAIN updates |->
     IF k \in DOMAIN updates THEN updates[k]
     ELSE IF k = "updatedAt" THEN now
     ELSE note[k]]

\* { ...note, ...updates, updatedAt: Date.now() }
Merge(note, updates) ==
  [k \in DOMAIN note \cup DOMAIN updates |->
     IF k = "updatedAt" THEN now
     ELSE IF k \in DOMAIN updates THEN updates[k]
     ELSE note[k]]

\* an update that adds the note when no note has the id
Upserted(prev, id, updates) ==
  IF \E i \in 1..Len(prev) : prev[i].id = id
  THEN [i \in 1..Len(prev) |-> IF prev[i].id = id THEN Merge(prev[i], updates) ELSE prev[i]]
  ELSE Append(prev, Merge([SavedNote EXCEPT !.id = id], updates))

\* prev.map((note) => note.id === id ? { ...note, ...updates, updatedAt: Date.now() } : note)
Updated(prev, id, updates) ==
  [i \in 1..Len(prev) |-> IF prev[i].id = id THEN Merge(prev[i], updates) ELSE prev[i]]

updateNote(id, updates) ==
  /\ CanCall
  /\ queued' = [queued EXCEPT !.notes = Updated(@, id, updates)]
  /\ dirty' = dirty \cup {NOTES}
  /\ touched' = touched \cup {queued.notes[i].id : i \in {j \in 1..Len(queued.notes) : queued.notes[j].id = id}}
  /\ Called(Call("updateNote", id, Null, DOMAIN updates, Null,
                 \E i \in 1..Len(queued.notes) : queued.notes[i].id = id))
  /\ UNCHANGED now

deleteNote(id) ==
  /\ CanCall
  /\ queued' = [queued EXCEPT
                  !.notes = SelectSeq(@, LAMBDA note : note.id # id),
                  !.selectedNoteId = IF selectedNoteId = id THEN Null ELSE @]
  /\ dirty' = dirty \cup {NOTES}
  /\ Called(Call("deleteNote", id, Null, {}, Null,
                 \E i \in 1..Len(queued.notes) : queued.notes[i].id = id))
  /\ UNCHANGED <<now, touched>>

\* a selectNote that counts as a mutation of the note
selectNoteAndStamp(id) ==
  /\ CanCall
  /\ queued' = [queued EXCEPT !.selectedNoteId = id,
                              !.notes = Updated(@, id, [updatedAt |-> now])]
  /\ dirty' = dirty \cup {NOTES}
  /\ Called(Call("selectNote", id, Null, {}, Null, TRUE))
  /\ UNCHANGED <<now, touched>>

\* selectNote: setSelectedNoteId
selectNote(id) ==
  /\ CanCall
  /\ queued' = [queued EXCEPT !.selectedNoteId = id]
  /\ Called(Call("selectNote", id, Null, {}, Null, TRUE))
  /\ UNCHANGED <<now, dirty, touched>>

NewFolder(name, parentId, createdAt) ==
  [id |-> IdOf(now), name |-> name, parentId |-> parentId, createdAt |-> createdAt]

createFolder(name, parentId) ==
  /\ CanCall
  /\ Len(queued.folders) < MaxFolders
  /\ \E createdAt \in Later(now) :
       LET newFolder == NewFolder(name, parentId, createdAt)
       IN  /\ queued' = [queued EXCEPT !.folders = Append(@, newFolder)]
           /\ now' = createdAt
           /\ Called(Call("createFolder", Null, name, {}, newFolder.id, TRUE))
  /\ dirty' = dirty \cup {FOLDERS}
  /\ UNCHANGED touched

\* { ...folder, ...updates }
MergeFolder(folder, updates) ==
  [k \in DOMAIN folder \cup DOMAIN updates |->
     IF k \in DOMAIN updates THEN updates[k] ELSE folder[k]]

updateFolder(id, updates) ==
  /\ CanCall
  /\ queued' = [queued EXCEPT !.folders =
                  [i \in 1..Len(@) |-> IF @[i].id = id THEN MergeFolder(@[i], updates) ELSE @[i]]]
  /\ dirty' = dirty \cup {FOLDERS}
  /\ Called(Call("updateFolder", id, Null, DOMAIN updates, Null,
                 \E i \in 1..Len(queued.folders) : queued.folders[i].id = id))
  /\ UNCHANGED <<now, touched>>

\* a deleteFolder that forgets the cascade
MoveToRootNoCascade(prev, id) == prev

\* prev.map((note) => (note.folderId === id ? { ...note, folderId: null } : note))
MoveToRoot(prev, id) ==
  [i \in 1..Len(prev) |->
     IF prev[i].folderId = id THEN [prev[i] EXCEPT !.folderId = Null] ELSE prev[i]]

deleteFolder(id) ==
  /\ CanCall
  /\ queued' = [queued EXCEPT
                  !.notes = MoveToRoot(@, id),
                  !.folders = SelectSeq(@, LAMBDA folder : folder.id # id),
                  !.selectedFolderId = IF selectedFolderId = id THEN Null ELSE @]
  /\ dirty' = dirty \cup {NOTES, FOLDERS}
  /\ touched' = touched \cup {queued.notes[i].id : i \in {j \in 1..Len(queued.notes) : queued.notes[j].folderId = id}}
  /\ Called(Call("deleteFolder", id, Null, {}, Null,
                 /\ \E i \in 1..Len(queued.folders) : queued.folders[i].id = id
                 /\ \E i \in 1..Len(queued.notes) : queued.notes[i].folderId = id))
  /\ UNCHANGED now

selectFolder(id) ==
  /\ CanCall
  /\ queued' = [queued EXCEPT !.selectedFolderId = id]
  /\ Called(Call("selectFolder", id, Null, {}, Null, TRUE))
  /\ UNCHANGED <<now, dirty, touched>>

\* the index of the first element of coll that is in the set found, 0 when
\* there is none (Array.prototype.find)
First(coll, found) ==
  IF \E i \in 1..Len(coll) : coll[i] \in found
  THEN CHOOSE i \in 1..Len(coll) :
         coll[i] \in found /\ \A j \in 1..(i - 1) : coll[j] \notin found
  ELSE 0

\* tags.find((t) => t.name.toLowerCase() === name.toLowerCase()), on the
\* tags of the render that created the callback
ExistingTag(name) ==
  First(tags, {t \in {tags[i] : i \in 1..Len(tags)} : ToLowerCase(t.name) = ToLowerCase(name)})

createTag(name) ==
  /\ CanCall
  /\ IF ExistingTag(name) # 0
     THEN /\ Called(Call("createTag", Null, name, {}, tags[ExistingTag(name)].id, TRUE))
          /\ UNCHANGED <<queued, dirty>>
     ELSE /\ Len(queued.tags) < MaxTags
          /\ LET newTag == [id |-> IdOf(now), name |-> name]
             IN  /\ queued' = [queued EXCEPT !.tags = Append(@, newTag)]
                 /\ Called(Call("createTag", Null, name, {}, newTag.id, FALSE))
          /\ dirty' = dirty \cup {TAGS}
  /\ UNCHANGED <<now, touched>>

\* note.tags.filter((tagName) => { const tag = tags.find((t) => t.id === id);
\*                                 return tag ? tagName !== tag.name : true; })
StripTag(tagNames, id) ==
  LET tag == First(tags, {t \in {tags[i] : i \in 1..Len(tags)} : t.id = id})
  IN  SelectSeq(tagNames, LAMBDA tagName : IF tag # 0 THEN tagName # tags[tag].name ELSE TRUE)

deleteTag(id) ==
  /\ CanCall
  /\ queued' = [queued EXCEPT
                  !.notes = [i \in 1..Len(@) |-> [@[i] EXCEPT !.tags = StripTag(@, id)]],
                  !.tags = SelectSeq(@, LAMBDA tag : tag.id # id)]
  /\ dirty' = dirty \cup {NOTES, TAGS}
  /\ touched' = touched \cup {queued.notes[i].id : i \in 1..Len(queued.notes)}
  /\ Called(Call("deleteTag", id, Null, {}, Null,
                 \E i \in 1..Len(queued.tags) : queued.tags[i].id = id))
  /\ UNCHANGED now

\* a getNotesByFolder that takes null for "every folder"
getNotesByFolderAll(folderId) ==
  SelectSeq(notes, LAMBDA note : folderId = Null \/ note.folderId = folderId)

\* getNotesByFolder: notes.filter((note) => note.folderId === folderId), on
\* the notes of the render that created the callback
getNotesByFolder(folderId) ==
  SelectSeq(notes, LAMBDA note : note.folderId = folderId)

(* ------------------------- components/Editor.tsx ------------------------ *)
\* the texts a document of the model may hold
Texts == {"", "a", "b"}

\* editor.getHTML(): the text of the document in a paragraph; the empty
\* document gives "<p></p>"
GetHTML(text) == "<p>" \o text \o "</p>"

\* editor.commands.setContent(html): the document the HTML parses to; the
\* empty string parses to the empty document
SetContent(html) ==
  IF \E text \in Texts : GetHTML(text) = html
  THEN CHOOSE text \in Texts : GetHTML(text) = html
  ELSE ""

\* const selectedNote = notes.find((n) => n.id === selectedNoteId), as a
\* sequence: the note, or nothing (undefined)
SelectedNote(st) ==
  LET i == First(st.notes, {n \in {st.notes[j] : j \in 1..Len(st.notes)} : n.id = st.selectedNoteId})
  IN  IF i = 0 THEN <<>> ELSE <<st.notes[i]>>

\* What a handler or an effect of the Editor may change: the queued store
\* state (q), the queued local state, the document, the refs and the timers.
Current ==
  [q |-> queued, dirty |-> dirty, touched |-> touched, calls |-> batch,
   local |-> local, doc |-> doc, flag |-> isInitializing,
   timers |-> timers, ref |-> saveTimeoutRef]

Becomes(e) ==
  /\ queued' = e.q /\ dirty' = e.dirty /\ touched' = e.touched /\ batch' = e.calls
  /\ local' = e.local /\ doc' = e.doc /\ isInitializing' = e.flag
  /\ timers' = e.timers /\ saveTimeoutRef' = e.ref

\* a debouncedSave that does not clear the pending timeout
DebouncedSaveNoClear(e, noteId, updates) ==
  LET timer == SaveTimer(now + DEBOUNCE_DELAY, noteId, updates)
  IN  [e EXCEPT !.timers = @ \cup {timer}, !.ref = timer]

\* debouncedSave: clearTimeout(saveTimeoutRef.current), then
\* saveTimeoutRef.current = setTimeout(() => updateNote(noteId, updates), DEBOUNCE_DELAY)
DebouncedSave(e, noteId, updates) ==
  LET timer == SaveTimer(now + DEBOUNCE_DELAY, noteId, updates)
  IN  [e EXCEPT !.timers = (@ \ {e.ref}) \cup {timer}, !.ref = timer]

\* updateNote called from an effect: the updater is queued behind the ones
\* already there
UpdateNoteIn(e, id, updates) ==
  [e EXCEPT !.q.notes = Updated(@, id, updates),
            !.dirty = @ \cup {NOTES},
            !.touched = @ \cup {e.q.notes[i].id : i \in {j \in 1..Len(e.q.notes) : e.q.notes[j].id = id}},
            !.calls = @ + 1]

\* The effects below run after a render; selectedNoteId, selectedNote, title,
\* fontSize and noteTags are the values of that render: queued.selectedNoteId,
\* SelectedNote(queued) and local, as they are when the render starts.

\* an init effect that does not raise isInitializingRef
InitEffectNoFlag(e) ==
  LET selectedNote == SelectedNote(queued)
  IN  IF selectedNote # <<>>
      THEN [e EXCEPT !.local = [title |-> selectedNote[1].title,
                                fontSize |-> selectedNote[1].fontSize,
                                noteTags |-> selectedNote[1].tags],
                     !.doc = IF GetHTML(@) # selectedNote[1].content
                             THEN SetContent(selectedNote[1].content) ELSE @]
      ELSE [e EXCEPT !.local = [title |-> "", fontSize |-> DEFAULT_FONT_SIZE, noteTags |-> <<>>],
                     !.doc = SetContent("")]

\* useEffect(..., [editor, selectedNoteId, selectedNote?.id, selectedNote?.updatedAt])
InitEffect(e) ==
  LET selectedNote == SelectedNote(queued)
  IN  IF selectedNote # <<>>
      THEN [e EXCEPT !.flag = TRUE,
                     !.local = [title |-> selectedNote[1].title,
                                fontSize |-> selectedNote[1].fontSize,
                                noteTags |-> selectedNote[1].tags],
                     !.doc = IF GetHTML(@) # selectedNote[1].content
                             THEN SetContent(selectedNote[1].content) ELSE @,
                     !.timers = @ \cup {InitTimer(now + InitializingDelay)}]
      ELSE [e EXCEPT !.local = [title |-> "", fontSize |-> DEFAULT_FONT_SIZE, noteTags |-> <<>>],
                     !.doc = SetContent("")]

\* if (!selectedNoteId || !selectedNote || isInitializingRef.current) return;
Returns(e) == queued.selectedNoteId = Null \/ SelectedNote(queued) = <<>> \/ e.flag

\* useEffect(..., [title, selectedNoteId, editor, debouncedSave, selectedNote])
TitleEffect(e) ==
  IF Returns(e) THEN e
  ELSE DebouncedSave(e, queued.selectedNoteId, [title |-> local.title, content |-> GetHTML(e.doc)])

\* useEffect(..., [fontSize, selectedNoteId, updateNote, selectedNote])
FontSizeEffect(e) ==
  IF Returns(e) THEN e
  ELSE UpdateNoteIn(e, queued.selectedNoteId, [fontSize |-> local.fontSize])

\* useEffect(..., [noteTags, selectedNoteId, updateNote, selectedNote])
TagsEffect(e) ==
  IF Returns(e) THEN e
  ELSE UpdateNoteIn(e, queued.selectedNoteId, [tags |-> local.noteTags])

\* the dependencies of the effects that differ from those of the last render
SelectedNoteIdChanged == queued.selectedNoteId # selectedNoteId

\* selectedNote: another object than the one of the last render
SelectedNoteChanged ==
  LET before == SelectedNote(Rendered)
      after == SelectedNote(queued)
  IN  \/ (before = <<>>) # (after = <<>>)
      \/ /\ after # <<>>
         /\ before # <<>>
         /\ (after[1].id # before[1].id \/ after[1].id \in touched \/ after[1] # before[1])

\* selectedNote?.id or selectedNote?.updatedAt
SelectedNoteStampChanged ==
  LET before == SelectedNote(Rendered)
      after == SelectedNote(queued)
  IN  \/ (before = <<>>) # (after = <<>>)
      \/ /\ after # <<>>
         /\ before # <<>>
         /\ (after[1].id # before[1].id \/ after[1].updatedAt # before[1].updatedAt)

\* the effects of the Editor whose dependencies changed, in declaration order
EditorEffects(e) ==
  LET e1 == IF SelectedNoteIdChanged \/ SelectedNoteStampChanged THEN InitEffect(e) ELSE e
      e2 == IF local.title # title \/ SelectedNoteIdChanged \/ SelectedNoteChanged
            THEN TitleEffect(e1) ELSE e1
      e3 == IF local.fontSize # fontSize \/ SelectedNoteIdChanged \/ SelectedNoteChanged
            THEN FontSizeEffect(e2) ELSE e2
  IN  IF local.noteTags # noteTags \/ SelectedNoteIdChanged \/ SelectedNoteChanged
      THEN TagsEffect(e3) ELSE e3

\* a state setter or a store call has queued an update
NeedsRender ==
  \/ queued # Rendered \/ dirty # {}
  \/ local # [title |-> title, fontSize |-> fontSize, noteTags |-> noteTags]

\* A re-render of the provider and of the Editor under it: the queued
\* updates become the state, then the effects of the Editor and the save
\* effects of the provider run.
RenderApp ==
  /\ mounted
  /\ NeedsRender
  /\ Commit
  /\ title' = local.title /\ fontSize' = local.fontSize /\ noteTags' = local.noteTags
  /\ Becomes(EditorEffects([Current EXCEPT !.dirty = {}, !.touched = {}, !.calls = 0]))
  /\ UNCHANGED <<typed, mounted, pageVars>>

\* the user is in front of the rendered view
Idle == mounted /\ phase = "ready" /\ ~NeedsRender

\* what a handler that only sets Editor state leaves alone
StoreAlone ==
  UNCHANGED <<now, storage, phase, notes, folders, tags, selectedNoteId, selectedFolderId,
              queued, dirty, touched, batch, loads, boot, last>>

\* The user changes the body to text; the Editor shows no body when no
\* note is selected. onUpdate: if (!isInitializingRef.current && selectedNoteId)
\* debouncedSave(selectedNoteId, {title, content: editor.getHTML()})
onUpdate(text) ==
  /\ Idle
  /\ SelectedNote(Rendered) # <<>>
  /\ text # doc
  /\ LET e == [Current EXCEPT !.doc = text]
     IN  Becomes(IF ~isInitializing /\ selectedNoteId # Null
                 THEN DebouncedSave(e, selectedNoteId, [title |-> title, content |-> GetHTML(text)])
                 ELSE e)
  /\ typed' = [at |-> now, content |-> GetHTML(text), unsaved |-> TRUE]
  /\ UNCHANGED <<now, storage, phase, notes, folders, tags, selectedNoteId, selectedFolderId,
                 loads, boot, last, title, fontSize, noteTags, mounted, pageVars>>

\* the title input: onChange={(e) => setTitle(e.target.value)}
setTitle(value) ==
  /\ Idle
  /\ SelectedNote(Rendered) # <<>>
  /\ value # title
  /\ local' = [local EXCEPT !.title = value]
  /\ StoreAlone
  /\ UNCHANGED <<title, fontSize, noteTags, doc, isInitializing, timers, saveTimeoutRef, typed,
                 mounted, pageVars>>

\* a handleFontSizeChange that does not clamp
NoClamp(size) == size

\* Math.max(MIN_FONT_SIZE, Math.min(MAX_FONT_SIZE, size))
Clamp(size) ==
  LET least == IF MAX_FONT_SIZE < size THEN MAX_FONT_SIZE ELSE size
  IN  IF MIN_FONT_SIZE > least THEN MIN_FONT_SIZE ELSE least

\* setFontSize((prev) => Math.max(MIN_FONT_SIZE, Math.min(MAX_FONT_SIZE, prev + delta)))
handleFontSizeChange(delta) ==
  /\ Idle
  /\ SelectedNote(Rendered) # <<>>
  /\ local' = [local EXCEPT !.fontSize = Clamp(@ + delta)]
  /\ StoreAlone
  /\ UNCHANGED <<title, fontSize, noteTags, doc, isInitializing, timers, saveTimeoutRef, typed,
                 mounted, pageVars>>

\* the remove button of a tag of the note:
\* setNoteTags((prev) => prev.filter((t) => t !== tagName))
handleRemoveTag(tagName) ==
  /\ Idle
  /\ SelectedNote(Rendered) # <<>>
  /\ \E i \in 1..Len(noteTags) : noteTags[i] = tagName
  /\ local' = [local EXCEPT !.noteTags = SelectSeq(@, LAMBDA t : t # tagName)]
  /\ StoreAlone
  /\ UNCHANGED <<title, fontSize, noteTags, doc, isInitializing, timers, saveTimeoutRef, typed,
                 mounted, pageVars>>

(* ---------------- contexts/DialogContext.tsx and the Dialog -------------- *)
\* what a handler of the dialog leaves alone in the Editor and in AppContent
EditorAlone ==
  UNCHANGED <<title, fontSize, noteTags, local, doc, isInitializing, timers, saveTimeoutRef,
              typed, mounted, isSidebarCollapsed, isMobile, isSidebarOpen, page>>

\* showDialog: setDialogState({ ...options, isOpen: true }); the option kept
\* is the id that onConfirm passes to deleteNote
showDialog(noteId) ==
  dialogState' = [isOpen |-> TRUE, noteId |-> noteId, by |-> dialogState.by]

\* closeDialog: setDialogState(null)
closeDialog(by) ==
  dialogState' = [isOpen |-> FALSE, noteId |-> Null, by |-> by]

\* the delete button of the Editor: if (selectedNote) showDialog({...,
\* onConfirm: () => deleteNote(selectedNote.id)})
handleDeleteNote ==
  /\ Idle
  /\ ~dialogState.isOpen
  /\ SelectedNote(Rendered) # <<>>
  /\ showDialog(SelectedNote(Rendered)[1].id)
  /\ StoreAlone
  /\ EditorAlone

\* the confirm button: handleConfirm = () => { onConfirm(); onClose(); }
handleConfirm ==
  /\ Idle
  /\ dialogState.isOpen
  /\ deleteNote(dialogState.noteId)
  /\ closeDialog("confirm")
  /\ EditorAlone

\* the cancel button: onClick={onClose}
handleCancel ==
  /\ Idle
  /\ dialogState.isOpen
  /\ closeDialog("cancel")
  /\ StoreAlone
  /\ EditorAlone

\* an Escape key that confirms
handleEscapeConfirms ==
  /\ Idle
  /\ dialogState.isOpen
  /\ deleteNote(dialogState.noteId)
  /\ closeDialog("Escape")
  /\ EditorAlone

\* the Escape key: if (e.key === 'Escape' && isOpen) onClose()
handleEscape ==
  /\ Idle
  /\ dialogState.isOpen
  /\ closeDialog("Escape")
  /\ StoreAlone
  /\ EditorAlone

\* a click on the backdrop: if (e.target === e.currentTarget) onClose()
handleBackdropClick ==
  /\ Idle
  /\ dialogState.isOpen
  /\ closeDialog("backdrop")
  /\ StoreAlone
  /\ EditorAlone

(* ------------------- AppContent and the Sidebar's effect ---------------- *)
\* the state AppContent rendered
AppContent ==
  [isSidebarCollapsed |-> isSidebarCollapsed, isMobile |-> isMobile,
   isSidebarOpen |-> isSidebarOpen]

\* the user is in front of the rendered page
AtRest == Idle /\ page = AppContent

\* what a handler of AppContent leaves alone
PageAlone ==
  UNCHANGED <<title, fontSize, noteTags, local, doc, isInitializing, timers, saveTimeoutRef,
              typed, mounted, dialogState, isSidebarCollapsed, isMobile, isSidebarOpen>>

\* the width below which the page is a mobile page
MobileWidth == 768

\* checkMobile, on mount and on resize: setIsMobile(window.innerWidth < 768);
\* if (window.innerWidth >= 768) setIsSidebarOpen(false)
checkMobile(innerWidth) ==
  /\ AtRest
  /\ page' = [page EXCEPT !.isMobile = innerWidth < MobileWidth,
                          !.isSidebarOpen = IF innerWidth >= MobileWidth THEN FALSE ELSE @]
  /\ StoreAlone
  /\ PageAlone

\* the menu button: if (isMobile) setIsSidebarOpen(!isSidebarOpen)
\* else setIsSidebarCollapsed(!isSidebarCollapsed)
handleSidebarToggle ==
  /\ AtRest
  /\ page' = IF isMobile THEN [page EXCEPT !.isSidebarOpen = ~isSidebarOpen]
             ELSE [page EXCEPT !.isSidebarCollapsed = ~isSidebarCollapsed]
  /\ StoreAlone
  /\ PageAlone

\* handleSidebarClose under the state st: if (isMobile) setIsSidebarOpen(false)
SidebarClosed(st, queue) ==
  IF st.isMobile THEN [queue EXCEPT !.isSidebarOpen = FALSE] ELSE queue

\* a click on the overlay, shown when isMobile && isSidebarOpen:
\* onClick={handleSidebarClose}
handleSidebarClose ==
  /\ AtRest
  /\ isMobile /\ isSidebarOpen
  /\ page' = SidebarClosed(AppContent, page)
  /\ StoreAlone
  /\ PageAlone

\* The Sidebar's useEffect(() => { if (isMobile && selectedNoteId && onClose)
\* onClose() }, [selectedNoteId, isMobile, onClose]) in a render: onClose is
\* handleSidebarClose, a function AppContent makes anew each time it renders,
\* and AppContent renders when its state has changed.
CloseOnSelect(queue) ==
  IF queued.selectedNoteId # selectedNoteId \/ page.isMobile # isMobile \/ page # AppContent
  THEN IF page.isMobile /\ queued.selectedNoteId # Null THEN SidebarClosed(page, queue) ELSE queue
  ELSE queue

\* A re-render of the page: the provider, the Editor under it as in
\* RenderApp, AppContent when its state has changed, and the Sidebar with
\* its effect.
RenderPage ==
  /\ mounted
  /\ NeedsRender \/ page # AppContent
  /\ Commit
  /\ title' = local.title /\ fontSize' = local.fontSize /\ noteTags' = local.noteTags
  /\ Becomes(EditorEffects([Current EXCEPT !.dirty = {}, !.touched = {}, !.calls = 0]))
  /\ isSidebarCollapsed' = page.isSidebarCollapsed
  /\ isMobile' = page.isMobile
  /\ isSidebarOpen' = page.isSidebarOpen
  /\ page' = CloseOnSelect(page)
  /\ UNCHANGED <<typed, mounted, dialogState>>

\* the timeout of debouncedSave: updateNote(noteId, updates)
SaveTimeout ==
  \E timer \in timers :
    /\ timer.kind = "save"
    /\ timer.due <= now
    /\ updateNote(timer.noteId, [title |-> timer.title, content |-> timer.content])
    /\ timers' = timers \ {timer}
    /\ typed' = [typed EXCEPT !.unsaved = FALSE]
    /\ UNCHANGED <<title, fontSize, noteTags, local, doc, isInitializing, saveTimeoutRef, mounted, pageVars>>

\* the timeout of the init effect: isInitializingRef.current = false
InitTimeout ==
  \E timer \in timers :
    /\ timer.kind = "init"
    /\ timer.due <= now
    /\ isInitializing' = FALSE
    /\ timers' = timers \ {timer}
    /\ StoreAlone
    /\ UNCHANGED <<title, fontSize, noteTags, local, doc, saveTimeoutRef, typed, mounted, pageVars>>

\* The instants at which the user acts: every InitializingDelay ms from the
\* opening of the page, and when a timeout is due (the user then acts
\* before its callback or after it).
NextInstant ==
  LET due == {timer.due : timer \in {t \in timers : t.due > now}}
      tick == (((now - 1) \div InitializingDelay) + 1) * InitializingDelay + 1
  IN  CHOOSE t \in due \cup {tick} : \A u \in due \cup {tick} : t <= u

\* Time passes with the user doing nothing; a timeout that is due runs
\* before more time passes.
Wait ==
  /\ Idle \/ ~mounted
  /\ \A timer \in timers : timer.due > now
  /\ NextInstant <= Horizon
  /\ now' = NextInstant
  /\ UNCHANGED <<storage, phase, notes, folders, tags, selectedNoteId, selectedFolderId,
                 queued, dirty, touched, batch, loads, boot, last, edVars>>

\* Rendering takes time. While the auto-save effects call updateNote render
\* after render (each call replaces selectedNote and leaves its updatedAt at
\* the same millisecond, so the init effect does not run), the clock moves on.
Rerender ==
  /\ phase = "ready" /\ NeedsRender
  /\ batch > 0 /\ last = NoCall
  /\ ~isInitializing
  /\ SelectedNoteChanged /\ ~SelectedNoteStampChanged /\ ~SelectedNoteIdChanged
  /\ (now - 1) % InitializingDelay < MaxDrift
  /\ now < Horizon
  /\ now' = now + 1
  /\ UNCHANGED <<storage, phase, notes, folders, tags, selectedNoteId, selectedFolderId,
                 queued, dirty, touched, batch, loads, boot, last, edVars>>

\* a cleanup that clears nothing
NoCleanup(pending, ref) == pending

\* return () => { if (saveTimeoutRef.current) clearTimeout(saveTimeoutRef.current); }
Cleanup(pending, ref) == pending \ {ref}

\* The Editor is torn down: the cleanup of its useEffect(..., []) runs. The
\* timeout of the init effect is not cleared.
Unmount ==
  /\ mounted
  /\ phase = "ready"
  /\ mounted' = FALSE
  /\ timers' = Cleanup(timers, saveTimeoutRef)
  /\ StoreAlone
  /\ UNCHANGED <<title, fontSize, noteTags, local, doc, isInitializing, saveTimeoutRef, typed,
                 pageVars>>

(* ---------------------------- context hooks ------------------------------ *)
\* the default value of createContext<... | undefined>(undefined)
Undefined == "undefined"

\* the providers of the application; a provider's value is named after it
Providers == {"ThemeProvider", "NotesProvider", "DialogProvider"}

\* useContext(Context) in a component rendered under the providers
\* `enclosing`: the provider's value, or the default of the context
useContext(provider, enclosing) == IF provider \in enclosing THEN provider ELSE Undefined

Thrown(message) == [threw |-> TRUE, value |-> message]
Returned(value) == [threw |-> FALSE, value |-> value]

useNotes(enclosing) ==
  LET context == useContext("NotesProvider", enclosing)
  IN  IF context = Undefined
        THEN Thrown("useNotes must be used within a NotesProvider")
        ELSE Returned(context)

useTheme(enclosing) ==
  LET context == useContext("ThemeProvider", enclosing)
  IN  IF context = Undefined
        THEN Thrown("useTheme must be used within a ThemeProvider")
        ELSE Returned(context)

\* a hook that hands out whatever useContext gave it
useDialogUnguarded(enclosing) ==
  Returned(useContext("DialogProvider", enclosing))

useDialog(enclosing) ==
  LET context == useContext("DialogProvider", enclosing)
  IN  IF context = Undefined
        THEN Thrown("useDialog must be used within a DialogProvider")
        ELSE Returned(context)

\* a component rendered under the providers `enclosing` calls a hook
CallHook(hook, result, enclosing) ==
  /\ last' = Call(hook, Null, Null, enclosing, result.value, ~result.threw)
  /\ UNCHANGED <<now, storage, phase, notes, folders, tags, selectedNoteId,
                 selectedFolderId, queued, dirty, touched, batch, loads, boot>>

(* --------------------------- specifications ----------------------------- *)
Titles == {"Untitled Note", "Essay"}
TagNames == {"work", "Home", "home"}
TagLists == {<<"Home">>, <<"Work", "Home">>, <<"home", "Work">>}
FolderNames == {"New Folder"}

\* the updates a caller of updateNote may pass: a Partial<Note>
NoteUpdates ==
  {[title |-> "Essay"], [id |-> "0"], [updatedAt |-> 0], [createdAt |-> MaxTime]}

\* the provider on its own, the Editor left as it is
Startup == (Mount \/ Render \/ Tick) /\ UNCHANGED edVars

NextNotes ==
  \/ Startup
  \/ createNote(Null) /\ UNCHANGED edVars
  \/ \E id \in IdsOf(queued.notes), updates \in NoteUpdates :
       updateNote(id, updates) /\ UNCHANGED edVars
  \/ \E id \in IdsOf(queued.notes) : deleteNote(id) /\ UNCHANGED edVars

NextFolders ==
  \/ Startup
  \/ \E folderId \in {Null} \cup IdsOf(queued.folders) :
       createNote(folderId) /\ UNCHANGED edVars
  \/ \E name \in FolderNames, parentId \in {Null} :
       createFolder(name, parentId) /\ UNCHANGED edVars
  \/ \E id \in IdsOf(queued.folders) : deleteFolder(id) /\ UNCHANGED edVars

NextTags ==
  \/ Startup
  \/ \E id \in IdsOf(queued.notes), tagNames \in TagLists :
       updateNote(id, [tags |-> tagNames]) /\ UNCHANGED edVars
  \/ \E name \in TagNames : createTag(name) /\ UNCHANGED edVars
  \/ \E id \in IdsOf(queued.tags) : deleteTag(id) /\ UNCHANGED edVars

\* notes, folders and tags in the store
Entities == Len(queued.notes) + Len(queued.folders) + Len(queued.tags)

\* every mutating call of the store
StoreCall ==
  \/ \E folderId \in {Null} \cup IdsOf(queued.folders) : Entities < MaxEntities /\ createNote(folderId)
  \/ \E id \in IdsOf(queued.notes) : updateNote(id, [title |-> "Essay"])
  \/ \E id \in IdsOf(queued.notes) : deleteNote(id)
  \/ Entities < MaxEntities /\ createFolder("New Folder", Null)
  \/ \E id \in IdsOf(queued.folders) : updateFolder(id, [name |-> "Drafts"])
  \/ \E id \in IdsOf(queued.folders) : deleteFolder(id)
  \/ \E name \in {"Work", "work"} : Entities < MaxEntities /\ createTag(name)
  \/ \E id \in IdsOf(queued.tags) : deleteTag(id)

Next ==
  \/ Mount /\ UNCHANGED edVars
  \/ Render /\ UNCHANGED edVars
  \/ StoreCall /\ UNCHANGED edVars

\* opening the page on any content of localStorage
NextStartup == (Mount \/ Render) /\ UNCHANGED edVars

\* the steps of the font size buttons: onClick={() => handleFontSizeChange(-2)} and (2)
FontSizeSteps == {-2, 2}

\* the font sizes a caller of updateNote may ask for
FontSizes == {5, 100}

\* the user in front of the Editor, on the notes of an earlier session:
\* typing in the body and in the title, and enlarging the font
NextEditor ==
  \/ Mount /\ UNCHANGED edVars
  \/ RenderApp
  \/ \E i \in 1..Len(notes) : Idle /\ selectNote(notes[i].id) /\ UNCHANGED edVars
  \/ \E text \in Texts : onUpdate(text)
  \/ \E value \in Titles : setTitle(value)
  \/ local.fontSize < DEFAULT_FONT_SIZE + FontReach /\ handleFontSizeChange(2)
  \/ SaveTimeout
  \/ InitTimeout
  \/ Wait

\* the font size buttons of the Editor, next to a caller of updateNote that
\* passes a font size of its own
NextFontSize ==
  \/ Mount /\ UNCHANGED edVars
  \/ RenderApp
  \/ \E i \in 1..Len(notes) : Idle /\ selectNote(notes[i].id) /\ UNCHANGED edVars
  \/ \E delta \in FontSizeSteps :
       /\ local.fontSize + delta \notin (DEFAULT_FONT_SIZE + FontReach + 1)..(MAX_FONT_SIZE - FontReach - 1)
       /\ handleFontSizeChange(delta)
  \/ \E id \in IdsOf(queued.notes), size \in FontSizes :
       Idle /\ updateNote(id, [fontSize |-> size]) /\ UNCHANGED edVars
  \/ SaveTimeout
  \/ InitTimeout
  \/ Wait
  \/ Rerender

\* the user goes from one saved note to the other, types in the body and
\* leaves the page
NextSwitch ==
  \/ Mount /\ UNCHANGED edVars
  \/ RenderApp
  \/ \E i \in 1..Len(notes) : Idle /\ selectNote(notes[i].id) /\ UNCHANGED edVars
  \/ \E text \in Texts : onUpdate(text)
  \/ SaveTimeout
  \/ InitTimeout
  \/ Wait
  \/ Idle /\ Unmount

\* selecting among the notes and folders of the store, and opening the
\* page again
NextSelect ==
  \/ Mount /\ UNCHANGED edVars
  \/ Render /\ UNCHANGED edVars
  \/ createNote(Null) /\ UNCHANGED edVars
  \/ \E id \in {Null} \cup IdsOf(queued.notes) : selectNote(id) /\ UNCHANGED edVars
  \/ \E id \in {Null} \cup IdsOf(queued.folders) : selectFolder(id) /\ UNCHANGED edVars
  \/ Reload

\* filing notes in folders, from an empty store
NextByFolder ==
  \/ Mount /\ UNCHANGED edVars
  \/ Render /\ UNCHANGED edVars
  \/ createFolder("Drafts", Null) /\ UNCHANGED edVars
  \/ \E folderId \in {Null} \cup IdsOf(queued.folders) :
       createNote(folderId) /\ UNCHANGED edVars
  \/ \E id \in IdsOf(queued.notes) : updateNote(id, [title |-> "Essay"]) /\ UNCHANGED edVars

\* components calling the context hooks under any nesting of the providers,
\* while the store runs
NextHooks ==
  \/ Mount /\ UNCHANGED edVars
  \/ Render /\ UNCHANGED edVars
  \/ \E id \in {Null} \cup IdsOf(queued.notes) : selectNote(id) /\ UNCHANGED edVars
  \/ \E enclosing \in SUBSET Providers :
       CallHook("useNotes", useNotes(enclosing), enclosing) /\ UNCHANGED edVars
  \/ \E enclosing \in SUBSET Providers :
       CallHook("useTheme", useTheme(enclosing), enclosing) /\ UNCHANGED edVars
  \/ \E enclosing \in SUBSET Providers :
       CallHook("useDialog", useDialog(enclosing), enclosing) /\ UNCHANGED edVars

\* the user selects the saved note and changes it, one change after
\* another: a font size button, the remove button of a tag, the title input
NextSettle ==
  \/ Mount /\ UNCHANGED edVars
  \/ RenderApp
  \/ \E i \in 1..Len(notes) :
       Idle /\ selectedNoteId = Null /\ selectNote(notes[i].id) /\ UNCHANGED edVars
  \/ local.fontSize < DEFAULT_FONT_SIZE + FontReach /\ handleFontSizeChange(2)
  \/ \E i \in 1..Len(noteTags) : handleRemoveTag(noteTags[i])
  \/ setTitle("Untitled Note")
  \/ SaveTimeout
  \/ InitTimeout
  \/ Wait
  \/ Rerender

\* the user types in the body of one of two saved notes and deletes the
\* selected note, as the Editor does on confirmation, while the debounced
\* save is pending
NextDelete ==
  \/ Mount /\ UNCHANGED edVars
  \/ RenderApp
  \/ \E i \in 1..Len(notes) : Idle /\ selectNote(notes[i].id) /\ UNCHANGED edVars
  \/ \E text \in Texts : onUpdate(text)
  \/ Idle /\ SelectedNote(Rendered) # <<>> /\ deleteNote(selectedNoteId) /\ UNCHANGED edVars
  \/ SaveTimeout
  \/ InitTimeout
  \/ Wait

\* the ids of the entities of a collection
Existing(coll) == {coll[i].id : i \in 1..Len(coll)}

\* The store as the Sidebar and the Editor call it: new notes and folders go
\* under the selected folder; selections and deletions name an entity of
\* the collection.
NextSidebar ==
  \/ Mount /\ UNCHANGED edVars
  \/ Render /\ UNCHANGED edVars
  \/ Tick /\ UNCHANGED edVars
  \/ Entities < MaxEntities /\ createNote(selectedFolderId) /\ UNCHANGED edVars
  \/ Entities < MaxEntities /\ createFolder("New Folder", selectedFolderId) /\ UNCHANGED edVars
  \/ \E id \in {Null} \cup Existing(queued.notes) : selectNote(id) /\ UNCHANGED edVars
  \/ \E id \in {Null} \cup Existing(queued.folders) : selectFolder(id) /\ UNCHANGED edVars
  \/ \E id \in Existing(queued.notes) : deleteNote(id) /\ UNCHANGED edVars
  \/ \E id \in Existing(queued.folders) : deleteFolder(id) /\ UNCHANGED edVars

\* the user selects one of two saved notes, presses the delete button of the
\* Editor and answers the dialog
NextDialog ==
  \/ Mount /\ UNCHANGED edVars
  \/ RenderApp
  \/ \E i \in 1..Len(notes) :
       Idle /\ ~dialogState.isOpen /\ selectNote(notes[i].id) /\ UNCHANGED edVars
  \/ handleDeleteNote
  \/ handleConfirm
  \/ handleCancel
  \/ handleEscape
  \/ handleBackdropClick
  \/ InitTimeout
  \/ Wait

\* the widths of the window: a phone and a desktop
Widths == {MobileWidth - 1, MobileWidth}

\* the user resizes the window, opens and closes the sidebar and selects
\* one of two saved notes or none
NextMobile ==
  \/ Mount /\ UNCHANGED edVars
  \/ RenderPage
  \/ \E id \in {Null} \cup Existing(notes) : AtRest /\ selectNote(id) /\ UNCHANGED edVars
  \/ \E innerWidth \in Widths : checkMobile(innerWidth)
  \/ handleSidebarToggle
  \/ handleSidebarClose
  \/ InitTimeout
  \/ AtRest /\ Wait

Spec == InitFresh /\ [][Next]_vars
SpecByFolder == InitFresh /\ [][NextByFolder]_vars
SpecHooks == InitSaved /\ [][NextHooks]_vars

\* a render that is due is made, and the clock does not stand still while
\* render follows render
SpecSettle ==
  InitSaved /\ [][NextSettle]_vars /\ WF_vars(RenderApp \/ Rerender)

SpecSelect == InitSaved /\ [][NextSelect]_vars
SpecSidebar == InitFresh /\ [][NextSidebar]_vars
SpecSwitch == InitTwoNotes /\ [][NextSwitch]_vars
SpecDelete == InitTwoNotes /\ [][NextDelete]_vars
SpecDialog == InitTwoNotes /\ [][NextDialog]_vars
SpecMobile == InitTwoNotes /\ [][NextMobile]_vars
SpecFontSize == InitSaved /\ [][NextFontSize]_vars
SpecEditor == InitSaved /\ [][NextEditor]_vars
SpecStartup == InitWith(AnyStorage) /\ [][NextStartup]_vars
SpecNotes == InitFresh /\ [][NextNotes]_vars
SpecFolders == Init /\ [][NextFolders]_vars
SpecTags == InitSaved /\ [][NextTags]_vars

(* ------------------------------- claims --------------------------------- *)
\* this step is a call of the store function op
CallStep(op) == batch' = batch + 1 /\ last'.op = op

HasId(coll, id) == \E i \in 1..Len(coll) : coll[i].id = id

\* C1: deleteFolder(F.id) on a folder F of the collection leaves no note with
\* folderId = F.id; every note that referenced F has folderId null and is
\* otherwise as before, every other note is unchanged, and the number of
\* notes is the same.
C1_DeleteFolderCascade ==
  [][(CallStep("deleteFolder") /\ HasId(queued.folders, last'.id)) =>
       /\ Len(queued'.notes) = Len(queued.notes)
       /\ \A i \in 1..Len(queued.notes) :
            /\ queued'.notes[i].folderId # last'.id
            /\ queued'.notes[i] =
                 IF queued.notes[i].folderId = last'.id
                 THEN [queued.notes[i] EXCEPT !.folderId = Null]
                 ELSE queued.notes[i]]_vars

\* a folder that notes referenced was deleted, next to a note that did not
C1_Witness ==
  /\ last.op = "deleteFolder" /\ last.hit
  /\ Len(queued.notes) = 2
  /\ \E i \in 1..2 : queued.notes[i].folderId \notin {Null, last.id}

\* the tag names of a note without the name gone, in order
Without(tagNames, gone) == SelectSeq(tagNames, LAMBDA tagName : tagName # gone)

\* C2: deleteTag(T.id) on a tag T of the collection leaves no note whose tags
\* contain T.name, keeps every other tag name of every note in order, and
\* removes T from the tag collection.
C2_DeleteTagStrips ==
  [][\A t \in 1..Len(queued.tags) :
       (CallStep("deleteTag") /\ queued.tags[t].id = last'.id) =>
         /\ queued.tags[t] \notin {queued'.tags[i] : i \in 1..Len(queued'.tags)}
         /\ Len(queued'.notes) = Len(queued.notes)
         /\ \A i \in 1..Len(queued.notes) :
              queued'.notes[i].tags = Without(queued.notes[i].tags, queued.tags[t].name)]_vars

\* C8: no two tags of the collection have names that are equal ignoring
\* case, whatever createTag calls were made (back to back ones included).
C8_NoCaseDuplicates ==
  \A i, j \in 1..Len(queued.tags) :
    i # j => ToLowerCase(queued.tags[i].name) # ToLowerCase(queued.tags[j].name)

\* C6: no two notes of the collection have the same id, whatever createNote,
\* updateNote and deleteNote calls were made.
C6_UniqueNoteIds ==
  \A i, j \in 1..Len(queued.notes) : i # j => queued.notes[i].id # queued.notes[j].id

Ordered(coll) == \A i \in 1..Len(coll) : coll[i].updatedAt >= coll[i].createdAt

\* C7 as stated: every note of the collection has updatedAt >= createdAt,
\* whatever createNote, updateNote and deleteNote calls were made.
C7_AlwaysOrdered == Ordered(queued.notes)

\* C7, amended: createNote, deleteNote and every updateNote whose updates
\* carry no createdAt keep updatedAt >= createdAt true of every note.
C7_OrderedUnlessCreatedAtPassed ==
  [][(Ordered(queued.notes) /\ ~(CallStep("updateNote") /\ "createdAt" \in last'.fields))
       => Ordered(queued'.notes)]_vars

\* an update that carried an updatedAt of its own met a note created earlier
C7_Witness ==
  /\ last.op = "updateNote" /\ last.hit /\ last.fields = {"updatedAt"}
  /\ \E i \in 1..Len(queued.notes) :
       queued.notes[i].id = last.id /\ queued.notes[i].updatedAt > queued.notes[i].createdAt

Serialized(key, st) == JSONStringify(Collection(key, st), KeysOf(key))

C4_HydratedFromStorage ==
  /\ loads <= 1
  /\ phase = "ready" =>
        \A key \in STORAGE_KEYS :
           Collection(key, Rendered) = JSONParse(boot[key]).value

\* hydration has completed on saved notes next to an unset tags key
C4_Witness ==
  /\ phase = "ready" /\ loads = 1
  /\ boot[NOTES] = SavedStorage[NOTES] /\ boot[TAGS] = Absent
  /\ notes = <<SavedNote>> /\ tags = <<>>

\* C5: a key that is absent or holds a text that cannot be parsed loads as
\* the empty list; the load never throws and startup is never halted.
C5_UnparsableLoadsEmpty ==
  /\ phase # "crashed"
  /\ loads > 0 =>
       \A key \in STORAGE_KEYS :
          boot[key].kind # "array" => GetCollection(boot[key]) = [threw |-> FALSE, value |-> <<>>]

\* the debounced saves that are pending
PendingSaves == {timer \in timers : timer.kind = "save"}

\* C10: at most one debounced save is pending at any time; a save for a
\* body edit fires only once DEBOUNCE_DELAY ms have passed since the last
\* input in the body, and it carries the content of that last input.
C10_DebouncedLastInput ==
  /\ [](Cardinality(PendingSaves) <= 1)
  /\ [][\A timer \in PendingSaves \ timers' :
          (CallStep("updateNote") /\ typed.unsaved) =>
             /\ now >= typed.at + DEBOUNCE_DELAY
             /\ timer.content = typed.content]_vars

\* C10, the part of it that holds: a call of debouncedSave clears the
\* timeout of the call before it, so no two saves are pending.
C10_OnePendingSave == Cardinality(PendingSaves) <= 1

InRange(size) == MIN_FONT_SIZE <= size /\ size <= MAX_FONT_SIZE

\* the font size of every note, and the one the Editor holds, is in range
AllInRange ==
  /\ \A i \in 1..Len(queued.notes) : InRange(queued.notes[i].fontSize)
  /\ InRange(local.fontSize)

\* C9 as stated: the fontSize of every note is within [MIN_FONT_SIZE,
\* MAX_FONT_SIZE] after any sequence of operations.
C9_AlwaysInRange == \A i \in 1..Len(queued.notes) : InRange(queued.notes[i].fontSize)

\* C9, amended: a font size button leaves the Editor's font size within
\* range whatever it was, and no step takes the font sizes out of range
\* except a call of updateNote that is passed a fontSize.
C9_ClampedInEditor ==
  /\ [][(Idle /\ local'.fontSize # local.fontSize) => InRange(local'.fontSize)]_vars
  /\ [][(AllInRange /\ ~(CallStep("updateNote") /\ "fontSize" \in last'.fields))
          => AllInRange']_vars

\* a font size button was pressed on a note that held 100, and the Editor
\* holds the upper bound
C9_Witness == fontSize = 100 /\ local.fontSize = MAX_FONT_SIZE /\ ~isInitializing

\* C11: once the selection has gone from note A to note B, no debounced save
\* scheduled while A was selected fires: a save that fires is for the note
\* that is selected, the one it was scheduled for.
C11_NoSaveAfterSwitch ==
  [][\A timer \in PendingSaves \ timers' :
       CallStep("updateNote") => timer.noteId = selectedNoteId]_vars

\* C12: once the Editor is torn down no debounced save is pending, and no
\* updateNote is called afterwards.
C12_NoSaveAfterUnmount ==
  /\ [](~mounted => PendingSaves = {})
  /\ [][~mounted => ~CallStep("updateNote")]_vars

\* the Editor was torn down while a debounced save was pending
C12_Witness ==
  ~mounted /\ saveTimeoutRef.kind = "save" /\ saveTimeoutRef.due > now

\* the collection a call of op addresses with its id
Addressed(op, st) ==
  CASE op \in {"updateNote", "deleteNote"} -> st.notes
    [] op \in {"updateFolder", "deleteFolder"} -> st.folders
    [] OTHER -> st.tags

\* C13: updateNote, deleteNote, updateFolder, deleteFolder or deleteTag on an
\* id that is not in its collection leaves notes, folders, tags and both
\* selections as they were.
C13_UnknownIdNoOp ==
  [][\A op \in {"updateNote", "deleteNote", "updateFolder", "deleteFolder", "deleteTag"} :
       (CallStep(op) /\ ~HasId(Addressed(op, queued), last'.id)) => queued' = queued]_vars

C16_UpdateNoteMerges ==
  [][\A updates \in NoteUpdates :
       (CallStep("updateNote") /\ last'.fields = DOMAIN updates /\ HasId(queued.notes, last'.id)) =>
         /\ Len(queued'.notes) = Len(queued.notes)
         /\ \E i \in 1..Len(queued.notes) :
              /\ queued.notes[i].id = last'.id
              /\ DOMAIN queued'.notes[i] = DOMAIN queued.notes[i]
              /\ \A k \in DOMAIN queued.notes[i] :
                   queued'.notes[i][k] =
                     IF k = "updatedAt" THEN now'
                     ELSE IF k \in DOMAIN updates THEN updates[k]
                     ELSE queued.notes[i][k]
              /\ \A j \in 1..Len(queued.notes) : j # i => queued'.notes[j] = queued.notes[j]]_vars

\* the note a createNote step has appended
Created(st) == st.notes[Len(st.notes)]

\* what C17 says of a createNote step but for the timestamps
CreateNoteAppends ==
  /\ Len(queued'.notes) = Len(queued.notes) + 1
  /\ SubSeq(queued'.notes, 1, Len(queued.notes)) = queued.notes
  /\ Created(queued').title = "Untitled Note"
  /\ Created(queued').content = ""
  /\ Created(queued').folderId = last'.name
  /\ Created(queued').tags = <<>>
  /\ Created(queued').fontSize = 16
  /\ last'.ret = Created(queued').id
  /\ queued'.selectedNoteId = Created(queued').id

\* C17 as stated: createNote(folderId) appends one note with the default
\* fields, the given folderId and createdAt = updatedAt, returns it, selects
\* it and leaves the notes there were as they are.
C17_CreateNoteDefaults ==
  [][CallStep("createNote") =>
       CreateNoteAppends /\ Created(queued').createdAt = Created(queued').updatedAt]_vars

\* C17, amended: as stated, but createdAt and updatedAt are two readings of
\* the clock taken during the call, createdAt <= updatedAt.
C17_CreateNoteClockReadings ==
  [][CallStep("createNote") =>
       /\ CreateNoteAppends
       /\ now <= Created(queued').createdAt
       /\ Created(queued').createdAt <= Created(queued').updatedAt
       /\ Created(queued').updatedAt <= now']_vars

\* a note was created in a folder, next to another note, while the clock moved
C17_Witness ==
  /\ last.op = "createNote" /\ Len(queued.notes) = 2
  /\ Created(queued).folderId \notin {Null, MissingId}
  /\ Created(queued).createdAt < Created(queued).updatedAt

\* C18: deleteNote(id) on a note of the collection leaves the notes with
\* another id, in order, and no note with that id; the selection becomes
\* null if it was that note when the call was made, and is unchanged if not.
C18_DeleteNoteSelection ==
  [][(CallStep("deleteNote") /\ HasId(queued.notes, last'.id)) =>
       /\ queued'.notes = SelectSeq(queued.notes, LAMBDA note : note.id # last'.id)
       /\ queued'.selectedNoteId =
            IF queued.selectedNoteId = last'.id THEN Null ELSE queued.selectedNoteId]_vars

\* C19: selectNote and selectFolder leave the notes, folders and tags and
\* the three persisted values as they are; a re-render that has no queued
\* update of a collection writes nothing; and when the page is opened again
\* both selections are null.
C19_SelectionOnly ==
  /\ [][(CallStep("selectNote") \/ CallStep("selectFolder")) =>
          /\ queued'.notes = queued.notes
          /\ queued'.folders = queued.folders
          /\ queued'.tags = queued.tags
          /\ dirty' = dirty
          /\ storage' = storage]_vars
  /\ [][(phase = "ready" /\ dirty = {}) => storage' = storage]_vars
  /\ [](phase \in {"unmounted", "hydrating"} =>
          /\ selectedNoteId = Null /\ selectedFolderId = Null
          /\ queued.selectedNoteId = Null /\ queued.selectedFolderId = Null)

\* the page was opened again on a note that the session before created and
\* selected: no note and no folder is selected
C19_Witness ==
  /\ phase = "ready" /\ batch = 0 /\ dirty = {} /\ boot = storage
  /\ Len(notes) = 2
  /\ selectedNoteId = Null /\ selectedFolderId = Null
  /\ queued.selectedNoteId = Null /\ queued.selectedFolderId = Null

\* C20: as long as the user only selects notes and edits nothing, no
\* debounced save is scheduled and no note is updated: every note is as
\* localStorage held it when the page was opened.
C20_SelectionKeepsNotes ==
  typed = NotTyped =>
    /\ PendingSaves = {}
    /\ phase = "ready" => queued.notes = JSONParse(boot[NOTES]).value

\* the indices of the notes of coll that are in folder folderId
InFolder(coll, folderId) == {i \in 1..Len(coll) : coll[i].folderId = folderId}

\* found holds the notes of coll that are in folder folderId, each once, in
\* the order of coll
ExactlyInFolder(found, coll, folderId) ==
  /\ Len(found) = Cardinality(InFolder(coll, folderId))
  /\ \E at \in [1..Len(found) -> InFolder(coll, folderId)] :
       /\ \A i \in 1..Len(found) : found[i] = coll[at[i]]
       /\ \A i, j \in 1..Len(found) : i < j => at[i] < at[j]

\* C21 as stated: getNotesByFolder(f) returns the notes of the collection
\* whose folderId is f, in insertion order, whatever calls came before it.
C21_ByFolderWhenCalled ==
  phase = "ready" =>
    \A folderId \in {Null} \cup IdsOf(queued.folders) :
      ExactlyInFolder(getNotesByFolder(folderId), queued.notes, folderId)

\* C21, amended: once the updates queued by the calls before it have been
\* rendered, getNotesByFolder(f) returns the notes of the collection whose
\* folderId is f, in insertion order.
C21_ByFolderOnceRendered ==
  (phase = "ready" /\ queued = Rendered) =>
    \A folderId \in {Null} \cup IdsOf(queued.folders) :
      ExactlyInFolder(getNotesByFolder(folderId), queued.notes, folderId)

\* createFolder("Drafts"), createNote in it and updateNote to "Essay" were
\* rendered: the folder holds that one note and the root holds none
C21_Witness ==
  /\ phase = "ready" /\ queued = Rendered
  /\ Len(folders) = 1 /\ folders[1].name = "Drafts"
  /\ Len(notes) = 1 /\ notes[1].folderId = folders[1].id /\ notes[1].title = "Essay"
  /\ getNotesByFolder(folders[1].id) = <<notes[1]>>
  /\ getNotesByFolder(Null) = <<>>

\* the provider a hook reads, and the message of its error
ProviderOf(hook) ==
  CASE hook = "useNotes" -> "NotesProvider"
    [] hook = "useTheme" -> "ThemeProvider"
    [] hook = "useDialog" -> "DialogProvider"

MessageOf(hook) ==
  CASE hook = "useNotes" -> "useNotes must be used within a NotesProvider"
    [] hook = "useTheme" -> "useTheme must be used within a ThemeProvider"
    [] hook = "useDialog" -> "useDialog must be used within a DialogProvider"

Hooks == {"useNotes", "useTheme", "useDialog"}

\* C22: useNotes, useDialog and useTheme throw their error when the component
\* has no enclosing provider of the context, and return the provider's value,
\* never the undefined default, when it has one
C22_HooksThrowOutsideProvider ==
  last.op \in Hooks =>
    IF ProviderOf(last.op) \in last.fields
      THEN last.hit /\ last.ret = ProviderOf(last.op)
      ELSE ~last.hit /\ last.ret = MessageOf(last.op)

\* useDialog was called under ThemeProvider and NotesProvider only, and threw
C22_Witness ==
  /\ last.op = "useDialog"
  /\ last.fields = {"ThemeProvider", "NotesProvider"}
  /\ ~last.hit
  /\ phase = "ready"

\* the collection a key of localStorage holds is readable and non-empty
HoldsData(store, key) ==
  /\ ~GetCollection(store[key]).threw
  /\ Len(GetCollection(store[key]).value) > 0

\* C23: from mount to the end of hydration, a key of localStorage that held
\* a non-empty collection when the page was opened still holds one
C23_StartupKeepsPersisted ==
  \A key \in STORAGE_KEYS :
    phase \in {"hydrating", "ready"} /\ HoldsData(boot, key) => HoldsData(storage, key)

\* nothing is left to run: the view is rendered and no timeout is pending
Quiescent == Idle /\ timers = {}

\* C24: once the user has stopped typing and every timeout has run, the
\* selected note of the store holds the last body the user typed and the
\* title the title input shows.
C24_EditsReachStore ==
  (Quiescent /\ SelectedNote(Rendered) # <<>>) =>
    /\ typed # NotTyped => SelectedNote(Rendered)[1].content = typed.content
    /\ SelectedNote(Rendered)[1].title = title

\* C25: a change the user makes to the selected note is followed by
\* finitely many renders: the updateNote calls of the auto-save effects do
\* not keep the effects running, and the view comes to rest (of the renders
\* that start before the Horizon, where the clock of the model stops).
C25_ChangeSettles == (phase = "ready" /\ NeedsRender /\ now < Horizon) ~> ~NeedsRender

\* the auto-save effects called updateNote render after render until the
\* clock moved on, and the view has come to rest with the change saved
C25_Witness ==
  /\ Idle
  /\ (now - 1) % InitializingDelay = 1
  /\ SelectedNote(Rendered) # <<>>
  /\ SelectedNote(Rendered)[1].updatedAt = now
  /\ SelectedNote(Rendered)[1].fontSize = DEFAULT_FONT_SIZE + 2

\* C26: an updateNote for an id that no note has, as a debounced save makes
\* after its note was deleted, leaves the notes as they are; and once the
\* page is loaded, typing, saving, selecting and deleting bring no id into
\* the collection: an id that comes into it comes by createNote.
C26_DeletedStaysDeleted ==
  /\ [][(CallStep("updateNote") /\ ~HasId(queued.notes, last'.id)) =>
          queued'.notes = queued.notes]_vars
  /\ [][(phase = "ready" /\ ~(IdsOf(queued'.notes) \subseteq IdsOf(queued.notes))) =>
          CallStep("createNote")]_vars

\* the debounced save of a deleted note has fired, and the other note is
\* the only one
C26_Witness ==
  /\ last.op = "updateNote" /\ ~last.hit
  /\ last.fields = {"title", "content"}
  /\ Len(queued.notes) = 1

\* C27: after deleteFolder(id) no folder of the collection has parentId = id.
C27_NoOrphanFolder ==
  [][CallStep("deleteFolder") =>
       \A i \in 1..Len(queued'.folders) : queued'.folders[i].parentId # last'.id]_vars

\* C28: when selections and deletions name entities of the collection, the
\* selected note is null or a note of the collection, and the selected
\* folder is null or a folder of the collection.
C28_SelectionsExist ==
  /\ selectedNoteId = Null \/ HasId(notes, selectedNoteId)
  /\ selectedFolderId = Null \/ HasId(folders, selectedFolderId)

C30_SidebarStaysOpen ==
  [][(page.isMobile /\ page.isSidebarOpen /\ ~page'.isSidebarOpen) =>
       AtRest \/ selectedNoteId' # selectedNoteId]_vars

====
